---------------------------- MODULE Spec2Model ----------------------------
(***************************************************************************)
(* Model of the task prioritization and study-block scheduling engine of   *)
(* SmartScotty: prioritize (agents/prioritization-agent), and              *)
(* getAvailableTimeSlots / generateDailyPlan / generateWeeklyPlan          *)
(* (agents/study-planner-agent.ts).                                        *)
(*                                                                         *)
(* Units.  The code computes with JavaScript numbers; the model keeps      *)
(* exact integers:                                                         *)
(*   - every hour-valued quantity (estimated_hours, remaining_hours,       *)
(*     maxHoursPerDay, hoursToSchedule) is carried in minutes (x 60);      *)
(*   - a reported block duration, Math.round(h * 10) / 10, is carried in   *)
(*     tenths of an hour;                                                  *)
(*   - a time of day "HH:mm" is a record [hh, mm];                         *)
(*   - deadlines and now are in 1/30000 of a day (2.88 s), so that one     *)
(*     unit of time is 1/3000 of a point of urgency; difficulty_score is   *)
(*     in hundredths, unrounded weights in 1/3000 of a point, rounded      *)
(*     weights and priority_score in hundredths of a point;                *)
(*   - NaN, the time value of an unparseable deadline and every number     *)
(*     computed from it, is one value apart from every number the model    *)
(*     computes.                                                           *)
(***************************************************************************)
EXTENDS Integers, Sequences, FiniteSets

Min(a, b) == IF a <= b THEN a ELSE b
Max(a, b) == IF a >= b THEN a ELSE b

(***************************************************************************)
(* Bounds of the model and constants of the program.                       *)
(***************************************************************************)
\* longest task list given to the planner
MaxTasks == 2
\* generateWeeklyPlan: const daysToPlan = 7
daysToPlan == 7

\* a number of points as an unrounded weight (1/3000 of a point)
Points(p) == p * 3000

\* a number of days as a time difference (1/30000 of a day)
Days(d) == d * 30000

\* new Date(s).getTime() of a string that is no date, and what arithmetic
\* makes of it
NaN == 0 - Points(100000)

isNaN(x) == x = NaN

(***************************************************************************)
(* Dates and times of day.                                                 *)
(***************************************************************************)
\* Date.getDay() order of the weekday names
dayNames ==
    <<"sunday", "monday", "tuesday", "wednesday", "thursday", "friday", "saturday">>

\* a Date is a day number; day 0 is a Sunday
getDayName(date) == dayNames[(date % 7) + 1]

\* "HH:mm" -> minutes since midnight
timeToMinutes(time) == time.hh * 60 + time.mm

\* minutes since midnight -> "HH:mm"
minutesToTime(minutes) == [hh |-> minutes \div 60, mm |-> minutes % 60]

T(h, m) == [hh |-> h, mm |-> m]

Iv(d, s, e, a) == [day |-> d, start_time |-> s, end_time |-> e, available |-> a]

\* mutant of getDefaultAvailability: the weekday hours given to the weekend too
getDefaultAvailabilityAllWeek ==
    << Iv("monday",    T(9, 0),  T(17, 0), TRUE),
       Iv("tuesday",   T(9, 0),  T(17, 0), TRUE),
       Iv("wednesday", T(9, 0),  T(17, 0), TRUE),
       Iv("thursday",  T(9, 0),  T(17, 0), TRUE),
       Iv("friday",    T(9, 0),  T(17, 0), TRUE),
       Iv("saturday",  T(9, 0),  T(17, 0), TRUE),
       Iv("sunday",    T(9, 0),  T(17, 0), TRUE) >>

getDefaultAvailability ==
    << Iv("monday",    T(9, 0),  T(17, 0), TRUE),
       Iv("tuesday",   T(9, 0),  T(17, 0), TRUE),
       Iv("wednesday", T(9, 0),  T(17, 0), TRUE),
       Iv("thursday",  T(9, 0),  T(17, 0), TRUE),
       Iv("friday",    T(9, 0),  T(17, 0), TRUE),
       Iv("saturday",  T(10, 0), T(16, 0), TRUE),
       Iv("sunday",    T(10, 0), T(16, 0), TRUE) >>

(***************************************************************************)
(* PriorityScorer: prioritize and its three weights.                       *)
(***************************************************************************)
\* Math.round(x * 100) / 100 of an unrounded weight: hundredths of a point
Round2(x) == IF isNaN(x) THEN NaN ELSE (x + 15) \div 30

\* mutant of calculateUrgencyWeight: an overdue task counted as no longer urgent
calculateUrgencyWeightOverdueZero(deadline, now) ==
    IF isNaN(deadline) THEN NaN
    ELSE Min(Points(100), Max(0, IF deadline - now < 0 THEN 0
                                  ELSE Points(100) - (deadline - now)))

\* NaN < 0 is false, and Math.max and Math.min of NaN are NaN
calculateUrgencyWeight(deadline, now) ==
    LET daysUntilDeadline == IF isNaN(deadline) THEN NaN ELSE deadline - now
    IN  IF isNaN(daysUntilDeadline)
        THEN NaN
        ELSE IF daysUntilDeadline < 0
        THEN Points(100)
        ELSE Min(Points(100), Max(0, Max(0, Points(100) - daysUntilDeadline)))

calculateDifficultyWeight(difficulty_score) == difficulty_score * 300

calculateHoursWeight(estimated_hours) ==
    Min(Points(100), Max(0, estimated_hours * 100))

\* mutant of ScoreTask: the hours weight left out of the sum
ScoreTaskWithoutHours(task, now) ==
    LET urgency_weight    == calculateUrgencyWeight(task.deadline, now)
        difficulty_weight == calculateDifficultyWeight(task.difficulty_score)
        hours_weight      == calculateHoursWeight(task.estimated_hours)
        priority_score    == IF isNaN(urgency_weight) THEN NaN
                             ELSE urgency_weight + difficulty_weight
    IN  [id               |-> task.id,
         deadline         |-> task.deadline,
         estimated_hours  |-> task.estimated_hours,
         difficulty_score |-> task.difficulty_score,
         priority_score   |-> Round2(priority_score),
         urgency_weight   |-> Round2(urgency_weight),
         difficulty_weight |-> Round2(difficulty_weight),
         hours_weight     |-> Round2(hours_weight)]

\* one element of tasks.map(...) in prioritize
ScoreTask(task, now) ==
    LET urgency_weight    == calculateUrgencyWeight(task.deadline, now)
        difficulty_weight == calculateDifficultyWeight(task.difficulty_score)
        hours_weight      == calculateHoursWeight(task.estimated_hours)
        priority_score    == IF isNaN(urgency_weight) THEN NaN
                             ELSE urgency_weight + difficulty_weight + hours_weight
    IN  [id               |-> task.id,
         deadline         |-> task.deadline,
         estimated_hours  |-> task.estimated_hours,
         difficulty_score |-> task.difficulty_score,
         priority_score   |-> Round2(priority_score),
         urgency_weight   |-> Round2(urgency_weight),
         difficulty_weight |-> Round2(difficulty_weight),
         hours_weight     |-> Round2(hours_weight)]

\* mutant of InsertByPriority: the comparator reversed, lowest score first
InsertByPriorityAscending(sorted, t) ==
    LET k == Cardinality({i \in 1..Len(sorted) :
                             sorted[i].priority_score <= t.priority_score})
    IN  SubSeq(sorted, 1, k) \o <<t>> \o SubSeq(sorted, k + 1, Len(sorted))

\* mutant of InsertByPriority: an unstable sort, equal scores change places
InsertByPriorityUnstable(sorted, t) ==
    LET k == Cardinality({i \in 1..Len(sorted) :
                             sorted[i].priority_score > t.priority_score})
    IN  SubSeq(sorted, 1, k) \o <<t>> \o SubSeq(sorted, k + 1, Len(sorted))

\* Array.prototype.sort with (a, b) => b.priority_score - a.priority_score is
\* stable: an element goes after every element that does not sort after it
InsertByPriority(sorted, t) ==
    LET k == Cardinality({i \in 1..Len(sorted) :
                             sorted[i].priority_score >= t.priority_score})
    IN  SubSeq(sorted, 1, k) \o <<t>> \o SubSeq(sorted, k + 1, Len(sorted))

RECURSIVE SortByPriority(_)
SortByPriority(s) ==
    IF s = <<>> THEN <<>>
    ELSE InsertByPriority(SortByPriority(SubSeq(s, 1, Len(s) - 1)), s[Len(s)])

prioritize(ts, now) ==
    SortByPriority([i \in 1..Len(ts) |-> ScoreTask(ts[i], now)])

Permutations(s) ==
    { [i \in 1..Len(s) |-> s[q[i]]] :
        q \in { f \in [1..Len(s) -> 1..Len(s)] :
                  \A i, j \in 1..Len(s) : i # j => f[i] # f[j] } }

\* what prioritize can return.  b.priority_score - a.priority_score is NaN as
\* soon as one score is NaN: the comparator is then no consistent order and
\* the order sort leaves the elements in is implementation-defined
prioritizeOutcomes(ts, now) ==
    LET prioritized == [i \in 1..Len(ts) |-> ScoreTask(ts[i], now)]
    IN  IF \E i \in 1..Len(ts) : isNaN(prioritized[i].priority_score)
        THEN Permutations(prioritized)
        ELSE { prioritize(ts, now) }

(***************************************************************************)
(* AvailabilityResolver: getAvailableTimeSlots.                            *)
(***************************************************************************)
\* periods.sort((a, b) => a.start - b.start), stable
InsertByStart(sorted, p) ==
    LET k == Cardinality({i \in 1..Len(sorted) : sorted[i].start <= p.start})
    IN  SubSeq(sorted, 1, k) \o <<p>> \o SubSeq(sorted, k + 1, Len(sorted))

RECURSIVE SortByStart(_)
SortByStart(s) ==
    IF s = <<>> THEN <<>>
    ELSE InsertByStart(SortByStart(SubSeq(s, 1, Len(s) - 1)), s[Len(s)])

Period(a) == [start |-> timeToMinutes(a.start_time), end |-> timeToMinutes(a.end_time)]

Periods(as) == [i \in 1..Len(as) |-> Period(as[i])]

\* mutant of PushSlot: the daily cap does not limit the slot
PushSlotUncapped(acc, start, availableMinutes, maxMinutes) ==
    IF availableMinutes >= 60
    THEN [slots |-> Append(acc.slots, [start |-> start, end |-> start + availableMinutes]),
          totalMinutesUsed |-> acc.totalMinutesUsed + availableMinutes]
    ELSE acc

\* the three "if (minutesToUse >= 60) slots.push(...)" sites; acc is
\* [slots, totalMinutesUsed]
PushSlot(acc, start, availableMinutes, maxMinutes) ==
    LET remainingMinutes == maxMinutes - acc.totalMinutesUsed
        minutesToUse     == Min(availableMinutes, remainingMinutes)
    IN  IF minutesToUse >= 60
        THEN [slots |-> Append(acc.slots, [start |-> start, end |-> start + minutesToUse]),
              totalMinutesUsed |-> acc.totalMinutesUsed + minutesToUse]
        ELSE acc

\* mutant of SplitAroundBusy: currentStart = busy.end, without Math.max
RECURSIVE SplitAroundBusyLastEnd(_, _, _, _, _, _)
SplitAroundBusyLastEnd(period, overlappingBusy, maxMinutes, j, currentStart, acc) ==
    IF j > Len(overlappingBusy) \/ acc.totalMinutesUsed >= maxMinutes
    THEN [currentStart |-> currentStart, acc |-> acc]
    ELSE LET busy == overlappingBusy[j]
             acc2 == IF currentStart < busy.start
                     THEN PushSlot(acc, currentStart,
                                   Min(busy.start, period.end) - currentStart, maxMinutes)
                     ELSE acc
         IN  SplitAroundBusyLastEnd(period, overlappingBusy, maxMinutes, j + 1,
                                    busy.end, acc2)

\* for (const busy of overlappingBusy) { ... }
RECURSIVE SplitAroundBusy(_, _, _, _, _, _)
SplitAroundBusy(period, overlappingBusy, maxMinutes, j, currentStart, acc) ==
    IF j > Len(overlappingBusy) \/ acc.totalMinutesUsed >= maxMinutes
    THEN [currentStart |-> currentStart, acc |-> acc]
    ELSE LET busy == overlappingBusy[j]
             acc2 == IF currentStart < busy.start
                     THEN PushSlot(acc, currentStart,
                                   Min(busy.start, period.end) - currentStart, maxMinutes)
                     ELSE acc
         IN  SplitAroundBusy(period, overlappingBusy, maxMinutes, j + 1,
                             Max(currentStart, busy.end), acc2)

\* mutant of ProcessPeriod: the busy periods are not cut out
ProcessPeriodIgnoringBusy(period, busyPeriods, maxMinutes, acc) ==
    PushSlot(acc, period.start, period.end - period.start, maxMinutes)

\* the body of "for (const period of availablePeriods)"
ProcessPeriod(period, busyPeriods, maxMinutes, acc) ==
    LET overlappingBusy ==
            SelectSeq(busyPeriods,
                      LAMBDA busy : busy.start < period.end /\ busy.end > period.start)
    IN  IF Len(overlappingBusy) = 0
        THEN PushSlot(acc, period.start, period.end - period.start, maxMinutes)
        ELSE LET r == SplitAroundBusy(period, SortByStart(overlappingBusy), maxMinutes,
                                      1, period.start, acc)
             IN  IF r.currentStart < period.end /\ r.acc.totalMinutesUsed < maxMinutes
                 THEN PushSlot(r.acc, r.currentStart, period.end - r.currentStart,
                               maxMinutes)
                 ELSE r.acc

RECURSIVE ProcessPeriods(_, _, _, _, _)
ProcessPeriods(availablePeriods, busyPeriods, maxMinutes, i, acc) ==
    IF i > Len(availablePeriods) \/ acc.totalMinutesUsed >= maxMinutes
    THEN acc
    ELSE ProcessPeriods(availablePeriods, busyPeriods, maxMinutes, i + 1,
                        ProcessPeriod(availablePeriods[i], busyPeriods, maxMinutes, acc))

\* mutant of DefaultSlots: the daily cap does not limit the default slot
DefaultSlotsUncapped(dayName, maxHoursPerDay) ==
    IF dayName \in {"monday", "tuesday", "wednesday", "thursday", "friday"}
    THEN << [start |-> timeToMinutes(T(9, 0)), end |-> timeToMinutes(T(9, 0)) + 8 * 60] >>
    ELSE << [start |-> timeToMinutes(T(10, 0)), end |-> timeToMinutes(T(10, 0)) + 6 * 60] >>

\* the fallback of a weekday without any interval
DefaultSlots(dayName, maxHoursPerDay) ==
    IF dayName \in {"monday", "tuesday", "wednesday", "thursday", "friday"}
    THEN << [start |-> timeToMinutes(T(9, 0)),
             end   |-> timeToMinutes(T(9, 0)) + Min(8 * 60, maxHoursPerDay)] >>
    ELSE << [start |-> timeToMinutes(T(10, 0)),
             end   |-> timeToMinutes(T(10, 0)) + Min(6 * 60, maxHoursPerDay)] >>

getAvailableTimeSlots(date, availability, maxHoursPerDay) ==
    LET dayName         == getDayName(date)
        dayAvailability == SelectSeq(availability, LAMBDA a : a.day = dayName)
    IN  IF Len(dayAvailability) = 0
        THEN DefaultSlots(dayName, maxHoursPerDay)
        ELSE LET availablePeriods ==
                     SortByStart(Periods(SelectSeq(dayAvailability, LAMBDA a : a.available)))
                 busyPeriods ==
                     SortByStart(Periods(SelectSeq(dayAvailability, LAMBDA a : ~a.available)))
             IN  ProcessPeriods(availablePeriods, busyPeriods, maxHoursPerDay, 1,
                                [slots |-> <<>>, totalMinutesUsed |-> 0]).slots

(***************************************************************************)
(* Requests: the inputs the state machine starts from.                     *)
(***************************************************************************)
RawTask(i, dl, est, diff) ==
    [id |-> i, deadline |-> dl, estimated_hours |-> est, difficulty_score |-> diff]

\* tasks of the repository's scenarios and tests (25 h, 40 h, 5 h) and tasks
\* with fractional hours
TaskPool ==
    { RawTask("long25", Days(1), 25 * 60, 900),
      RawTask("big40",  Days(1), 40 * 60, 900),
      RawTask("small5", Days(1), 5 * 60,  200),
      RawTask("frac",   0,    75,      1000),
      RawTask("half",   0 - Days(1), 30,  1000),
      RawTask("two",    Days(5), 2 * 60,  500) }

\* task lists with unique ids, in any order
TaskLists ==
    UNION { { s \in [1..n -> TaskPool] : \A i, j \in 1..n : i # j => s[i] # s[j] }
            : n \in 0..MaxTasks }

EachDay(s, e, a) ==
    << Iv("monday", s, e, a), Iv("tuesday", s, e, a), Iv("wednesday", s, e, a),
       Iv("thursday", s, e, a), Iv("friday", s, e, a), Iv("saturday", s, e, a),
       Iv("sunday", s, e, a) >>

\* 09:00-17:00 open with lunch 12:00-13:00 busy
LunchBreak ==
    << Iv("monday", T(9, 0), T(17, 0), TRUE), Iv("monday", T(12, 0), T(13, 0), FALSE) >>

\* two open intervals of one weekday that overlap
OverlappingOpen ==
    << Iv("tuesday", T(9, 0), T(12, 0), TRUE), Iv("tuesday", T(10, 0), T(13, 0), TRUE) >>

\* an hour and a half every day
ShortDays == EachDay(T(9, 0), T(10, 30), TRUE)

AvailabilityCases == { <<>>, LunchBreak, OverlappingOpen, ShortDays }

\* max_hours_per_day: the default 6, 8, 1.5 and 0.5
MaxHoursCases == { 6 * 60, 8 * 60, 90, 30 }

StartDates == 0..6

(***************************************************************************)
(* State.                                                                  *)
(***************************************************************************)
VARIABLES
    rawTasks,            \* the tasks given to prioritize
    now,                 \* the reference time of prioritize
    availability,        \* the request's availability list
    max_hours_per_day,   \* the request's max_hours_per_day
    maxHoursPerDay,      \* the daily cap generateWeeklyPlan is called with
    startDate,           \* the first day planned: the local calendar day of the start instant
    startTime,           \* the local time of day of the start instant, in minutes
    utcOffset,           \* the host's offset from UTC in minutes (local = UTC + offset)
    pc,                  \* "execute", "score", "plan", "day", "alloc", "endday",
                         \* "done", "responded", "failed"
    tasks,               \* the PrioritizedTask[] generateWeeklyPlan receives
    avail,               \* generateWeeklyPlan: avail
    tasksWithRemaining,  \* generateWeeklyPlan: tasks with remaining_hours
    allBlocks,           \* generateWeeklyPlan: allBlocks
    dayOffset,           \* generateWeeklyPlan: loop counter
    timeSlots,           \* generateDailyPlan: timeSlots
    sortedTasks,         \* generateDailyPlan: sortedTasks, as indices of tasksWithRemaining
    slotPositions,       \* generateDailyPlan: currentTime of each slot
    blocks,              \* generateDailyPlan: blocks
    ti,                  \* position of "for (const task of sortedTasks)"
    si,                  \* position of "for (const slotPos of slotPositions)"
    result               \* the AgentResult of StudyPlannerAgent.execute

vars == << rawTasks, now, availability, max_hours_per_day, maxHoursPerDay, startDate,
           startTime, utcOffset, pc, tasks, avail, tasksWithRemaining, allBlocks, dayOffset, timeSlots,
           sortedTasks, slotPositions, blocks, ti, si, result >>

inputs == << rawTasks, now, availability, max_hours_per_day, maxHoursPerDay, startDate,
            startTime, utcOffset >>

\* no call of StudyPlannerAgent.execute has returned
NoResult ==
    [returned |-> FALSE, success |-> FALSE, study_blocks |-> <<>>,
     summary |-> [total_blocks |-> 0, total_hours |-> 0, days_covered |-> 0,
                  average_hours_per_day |-> 0]]

Init ==
    /\ rawTasks \in TaskLists
    /\ now = 0
    /\ availability \in AvailabilityCases
    /\ maxHoursPerDay \in MaxHoursCases
    /\ max_hours_per_day = maxHoursPerDay
    /\ startDate \in StartDates
    /\ startTime = 0
    /\ utcOffset = 0
    /\ pc = "score"
    /\ tasks = <<>>
    /\ avail = <<>>
    /\ tasksWithRemaining = <<>>
    /\ allBlocks = <<>>
    /\ dayOffset = 0
    /\ timeSlots = <<>>
    /\ sortedTasks = <<>>
    /\ slotPositions = <<>>
    /\ blocks = <<>>
    /\ ti = 1
    /\ si = 1
    /\ result = NoResult

(***************************************************************************)
(* Operations.                                                             *)
(***************************************************************************)
\* the caller scores the tasks with prioritize before planning
Prioritize ==
    /\ pc = "score"
    /\ tasks' \in prioritizeOutcomes(rawTasks, now)
    /\ pc' = "plan"
    /\ UNCHANGED << inputs, result, avail, tasksWithRemaining, allBlocks, dayOffset, timeSlots,
                    sortedTasks, slotPositions, blocks, ti, si >>

\* the caller passes scored tasks to the planner in an order of its own
PassInCallerOrder ==
    /\ pc = "score"
    /\ tasks' = [i \in 1..Len(rawTasks) |-> ScoreTask(rawTasks[i], now)]
    /\ pc' = "plan"
    /\ UNCHANGED << inputs, result, avail, tasksWithRemaining, allBlocks, dayOffset, timeSlots,
                    sortedTasks, slotPositions, blocks, ti, si >>

\* mutant of StartWeeklyPlan: remaining_hours written onto the caller's task objects
StartWeeklyPlanInPlace ==
    /\ pc = "plan"
    /\ avail' = IF Len(availability) > 0 THEN availability ELSE getDefaultAvailability
    /\ tasksWithRemaining' =
           [i \in 1..Len(tasks) |->
               [id |-> tasks[i].id,
                estimated_hours |-> tasks[i].estimated_hours,
                priority_score |-> tasks[i].priority_score,
                remaining_hours |-> tasks[i].estimated_hours]]
    /\ tasks' = tasksWithRemaining'
    /\ allBlocks' = <<>>
    /\ dayOffset' = 0
    /\ pc' = "day"
    /\ UNCHANGED << inputs, result, timeSlots, sortedTasks, slotPositions, blocks, ti, si >>

\* generateWeeklyPlan up to its loop
StartWeeklyPlan ==
    /\ pc = "plan"
    /\ avail' = IF Len(availability) > 0 THEN availability ELSE getDefaultAvailability
    /\ tasksWithRemaining' =
           [i \in 1..Len(tasks) |->
               [id |-> tasks[i].id,
                estimated_hours |-> tasks[i].estimated_hours,
                priority_score |-> tasks[i].priority_score,
                remaining_hours |-> tasks[i].estimated_hours]]
    /\ allBlocks' = <<>>
    /\ dayOffset' = 0
    /\ pc' = "day"
    /\ UNCHANGED << inputs, result, tasks, timeSlots, sortedTasks, slotPositions, blocks, ti, si >>

currentDate == startDate + dayOffset

\* [...tasks].filter((t) => t.remaining_hours > 0).sort(by priority_score, descending)
\* mutant of SortedTaskIndices: the tasks sorted by the score formula, computed anew
SortedTaskIndicesByFormula(ts) ==
    LET tagged == [i \in 1..Len(ts) |->
                      [idx |-> i,
                       priority_score |-> ScoreTask(tasks[i], now).priority_score,
                       remaining_hours |-> ts[i].remaining_hours]]
        sorted == SortByPriority(SelectSeq(tagged, LAMBDA t : t.remaining_hours > 0))
    IN  [k \in 1..Len(sorted) |-> sorted[k].idx]

\* mutant of SortedTaskIndices: the tasks taken in the order they were passed
SortedTaskIndicesAsPassed(ts) ==
    LET tagged == [i \in 1..Len(ts) |->
                      [idx |-> i, priority_score |-> ts[i].priority_score,
                       remaining_hours |-> ts[i].remaining_hours]]
        kept == SelectSeq(tagged, LAMBDA t : t.remaining_hours > 0)
    IN  [k \in 1..Len(kept) |-> kept[k].idx]

SortedTaskIndices(ts) ==
    LET tagged == [i \in 1..Len(ts) |->
                      [idx |-> i, priority_score |-> ts[i].priority_score,
                       remaining_hours |-> ts[i].remaining_hours]]
        sorted == SortByPriority(SelectSeq(tagged, LAMBDA t : t.remaining_hours > 0))
    IN  [k \in 1..Len(sorted) |-> sorted[k].idx]

\* generateDailyPlan up to its loops
StartDailyPlan ==
    /\ pc = "day"
    /\ LET slots == getAvailableTimeSlots(currentDate, avail, maxHoursPerDay)
           order == SortedTaskIndices(tasksWithRemaining)
       IN  /\ timeSlots' = slots
           /\ blocks' = <<>>
           /\ IF Len(slots) = 0
              THEN /\ pc' = "endday"
                   /\ UNCHANGED << sortedTasks, slotPositions >>
              ELSE /\ sortedTasks' = order
                   /\ slotPositions' = [i \in 1..Len(slots) |-> slots[i].start]
                   /\ pc' = IF Len(order) = 0 THEN "endday" ELSE "alloc"
    /\ ti' = 1
    /\ si' = 1
    /\ UNCHANGED << inputs, result, tasks, avail, tasksWithRemaining, allBlocks, dayOffset >>

\* Math.round(hoursToSchedule * 10) / 10, in tenths of an hour
RoundDuration(hoursToSchedule) == (hoursToSchedule + 3) \div 6

\* the loops move on: the next slot of this task, or the first slot of the next task
NextSlot ==
    IF si < Len(timeSlots)
    THEN /\ si' = si + 1
         /\ UNCHANGED << ti, pc >>
    ELSE /\ si' = 1
         /\ ti' = ti + 1
         /\ pc' = IF ti + 1 > Len(sortedTasks) THEN "endday" ELSE "alloc"

NextTask ==
    /\ si' = 1
    /\ ti' = ti + 1
    /\ pc' = IF ti + 1 > Len(sortedTasks) THEN "endday" ELSE "alloc"

task == tasksWithRemaining[sortedTasks[ti]]

remainingMinutes == timeSlots[si].end - slotPositions[si]

\* mutant of hoursToSchedule: never more than one hour at a time
hoursToScheduleOneHour == Min(task.remaining_hours, 60)

hoursToSchedule == Min(task.remaining_hours, remainingMinutes)

\* "if (task.remaining_hours <= 0) break": the task is served, on to the next task
TaskServed ==
    /\ pc = "alloc"
    /\ task.remaining_hours <= 0
    /\ NextTask
    /\ UNCHANGED << inputs, result, tasks, avail, tasksWithRemaining, allBlocks, dayOffset,
                    timeSlots, sortedTasks, slotPositions, blocks >>

\* "if (remainingMinutes < 60) continue", or hoursToSchedule below 1: no block
SkipSlot ==
    /\ pc = "alloc"
    /\ task.remaining_hours > 0
    /\ remainingMinutes < 60 \/ hoursToSchedule < 60
    /\ NextSlot
    /\ UNCHANGED << inputs, result, tasks, avail, tasksWithRemaining, allBlocks, dayOffset,
                    timeSlots, sortedTasks, slotPositions, blocks >>

\* day.toISOString().split("T")[0]: the UTC calendar day of the instant that
\* is startTime into the local day date
toISODate(date) == (date * 1440 + startTime - utcOffset) \div 1440

NewBlock ==
    [task_id    |-> task.id,
     day        |-> toISODate(currentDate),
     start_time |-> minutesToTime(slotPositions[si]),
     duration   |-> RoundDuration(hoursToSchedule)]

\* mutant of ScheduleBlock: the test hoursToSchedule >= 1 left out
ScheduleBlockOfAnyLength ==
    /\ pc = "alloc"
    /\ task.remaining_hours > 0
    /\ remainingMinutes >= 60
    /\ blocks' = Append(blocks, NewBlock)
    /\ tasksWithRemaining' =
           [tasksWithRemaining EXCEPT ![sortedTasks[ti]].remaining_hours = @ - hoursToSchedule]
    /\ slotPositions' = [slotPositions EXCEPT ![si] = @ + hoursToSchedule]
    /\ NextSlot
    /\ UNCHANGED << inputs, result, tasks, avail, allBlocks, dayOffset, timeSlots, sortedTasks >>

\* mutant of ScheduleBlock: remaining_hours reduced by the block's rounded duration
ScheduleBlockRoundedDecrement ==
    /\ pc = "alloc"
    /\ task.remaining_hours > 0
    /\ remainingMinutes >= 60
    /\ hoursToSchedule >= 60
    /\ blocks' = Append(blocks, NewBlock)
    /\ tasksWithRemaining' =
           [tasksWithRemaining EXCEPT
               ![sortedTasks[ti]].remaining_hours = @ - RoundDuration(hoursToSchedule) * 6]
    /\ slotPositions' = [slotPositions EXCEPT ![si] = @ + hoursToSchedule]
    /\ NextSlot
    /\ UNCHANGED << inputs, result, tasks, avail, allBlocks, dayOffset, timeSlots, sortedTasks >>

\* mutant of ScheduleBlock: a task leaves the slot loop after its first block
ScheduleBlockThenNextTask ==
    /\ pc = "alloc"
    /\ task.remaining_hours > 0
    /\ remainingMinutes >= 60
    /\ hoursToSchedule >= 60
    /\ blocks' = Append(blocks, NewBlock)
    /\ tasksWithRemaining' =
           [tasksWithRemaining EXCEPT ![sortedTasks[ti]].remaining_hours = @ - hoursToSchedule]
    /\ slotPositions' = [slotPositions EXCEPT ![si] = @ + hoursToSchedule]
    /\ NextTask
    /\ UNCHANGED << inputs, result, tasks, avail, allBlocks, dayOffset, timeSlots, sortedTasks >>

\* "if (hoursToSchedule >= 1) { blocks.push(...); ... }"
ScheduleBlock ==
    /\ pc = "alloc"
    /\ task.remaining_hours > 0
    /\ remainingMinutes >= 60
    /\ hoursToSchedule >= 60
    /\ blocks' = Append(blocks, NewBlock)
    /\ tasksWithRemaining' =
           [tasksWithRemaining EXCEPT ![sortedTasks[ti]].remaining_hours = @ - hoursToSchedule]
    /\ slotPositions' = [slotPositions EXCEPT ![si] = @ + hoursToSchedule]
    /\ NextSlot
    /\ UNCHANGED << inputs, result, tasks, avail, allBlocks, dayOffset, timeSlots, sortedTasks >>

\* mutant of allComplete: the early stop left out
neverComplete == FALSE

\* mutant of allComplete: some() in place of every()
anyComplete ==
    \E i \in 1..Len(tasksWithRemaining) : tasksWithRemaining[i].remaining_hours <= 0

\* tasksWithRemaining.every((t) => t.remaining_hours <= 0)
allComplete ==
    \A i \in 1..Len(tasksWithRemaining) : tasksWithRemaining[i].remaining_hours <= 0

\* generateWeeklyPlan after the day's generateDailyPlan returned
EndDay ==
    /\ pc = "endday"
    /\ allBlocks' = allBlocks \o blocks
    /\ IF allComplete \/ dayOffset + 1 >= daysToPlan
       THEN /\ pc' = "done"
            /\ UNCHANGED dayOffset
       ELSE /\ pc' = "day"
            /\ dayOffset' = dayOffset + 1
    /\ UNCHANGED << inputs, result, tasks, avail, tasksWithRemaining, timeSlots, sortedTasks,
                    slotPositions, blocks, ti, si >>

Next ==
    \/ Prioritize
    \/ PassInCallerOrder
    \/ StartWeeklyPlan
    \/ StartDailyPlan
    \/ TaskServed
    \/ SkipSlot
    \/ ScheduleBlock
    \/ EndDay

Spec == Init /\ [][Next]_vars

(***************************************************************************)
(* Reading a schedule back, as the callers and the tests do.               *)
(***************************************************************************)
\* start of a block in minutes, from its reported start_time
BlockStart(b) == timeToMinutes(b.start_time)

\* end of a block in minutes: start_time + duration * 60, from the reported duration
BlockEnd(b) == BlockStart(b) + b.duration * 6

RECURSIVE SumDuration(_)
\* sum of the reported durations of a block list, in minutes
SumDuration(bs) ==
    IF bs = <<>> THEN 0 ELSE Head(bs).duration * 6 + SumDuration(Tail(bs))

BlocksOfDay(bs, d) == SelectSeq(bs, LAMBDA b : b.day = d)

BlocksOfTask(bs, id) == SelectSeq(bs, LAMBDA b : b.task_id = id)

DaysOf(bs) == { bs[i].day : i \in 1..Len(bs) }

Returned == pc = "done"

(***************************************************************************)
(* Claims C1 - C4: the returned schedule, read from its reported fields.   *)
(***************************************************************************)
\* C1 (as claimed): in the returned schedule the blocks of one day, each the
\* interval [start_time, start_time + duration), are pairwise non-overlapping.
NoDoubleBooking ==
    Returned =>
        \A i, j \in 1..Len(allBlocks) :
            (i < j /\ allBlocks[i].day = allBlocks[j].day) =>
                \/ BlockEnd(allBlocks[i]) <= BlockStart(allBlocks[j])
                \/ BlockEnd(allBlocks[j]) <= BlockStart(allBlocks[i])

\* the busy intervals the request gives for the weekday of a date
BusyPeriodsOf(date) ==
    { Period(availability[k]) :
        k \in { n \in 1..Len(availability) :
                  /\ ~availability[n].available
                  /\ availability[n].day = getDayName(date) } }

\* C2 (as claimed): no block of the returned schedule, read as
\* [start_time, start_time + duration), intersects a busy interval of its weekday.
BusyIntervalExclusion ==
    Returned =>
        \A i \in 1..Len(allBlocks) :
            \A busy \in BusyPeriodsOf(allBlocks[i].day) :
                \/ BlockEnd(allBlocks[i]) <= busy.start
                \/ busy.end <= BlockStart(allBlocks[i])

\* C3 (as claimed): on every day of the returned schedule the reported durations
\* sum to at most max_hours_per_day.
CapacityBound ==
    Returned =>
        \A d \in DaysOf(allBlocks) :
            SumDuration(BlocksOfDay(allBlocks, d)) <= maxHoursPerDay

\* C4 (as claimed): the reported durations of a task's blocks sum to at most its
\* estimated_hours.
PerTaskBound ==
    Returned =>
        \A i \in 1..Len(tasks) :
            SumDuration(BlocksOfTask(allBlocks, tasks[i].id)) <= tasks[i].estimated_hours

(***************************************************************************)
(* Claims C5 and C9: what a long enough horizon guarantees.                *)
(***************************************************************************)
RECURSIVE SlotMinutes(_)
\* total length of a slot list
SlotMinutes(slots) ==
    IF slots = <<>> THEN 0
    ELSE (Head(slots).end - Head(slots).start) + SlotMinutes(Tail(slots))

\* the slots generateDailyPlan gets on the day at offset d
SlotsOfOffset(d) == getAvailableTimeSlots(startDate + d, avail, maxHoursPerDay)

RECURSIVE FreeTimeFrom(_)
\* free time offered by the planned days from offset d on
FreeTimeFrom(d) ==
    IF d >= daysToPlan THEN 0 ELSE SlotMinutes(SlotsOfOffset(d)) + FreeTimeFrom(d + 1)

RECURSIVE TotalEstimated(_)
TotalEstimated(ts) ==
    IF ts = <<>> THEN 0 ELSE Head(ts).estimated_hours + TotalEstimated(Tail(ts))

HorizonLongEnough == FreeTimeFrom(0) >= TotalEstimated(tasks)

\* task i ends fully scheduled
FullyScheduled(i) ==
    /\ SumDuration(BlocksOfTask(allBlocks, tasks[i].id)) = tasks[i].estimated_hours
    /\ tasksWithRemaining[i].remaining_hours = 0

\* every estimated_hours and every free slot of the horizon is a whole number of hours
WholeHours ==
    /\ \A i \in 1..Len(tasks) : tasks[i].estimated_hours % 60 = 0
    /\ \A d \in 0..(daysToPlan - 1) :
           \A k \in 1..Len(SlotsOfOffset(d)) :
               (SlotsOfOffset(d)[k].end - SlotsOfOffset(d)[k].start) % 60 = 0

\* C5 (as claimed): if the free time of the 7 planned days is at least the sum of
\* the estimated hours, every task ends fully scheduled.
FullSchedulingWhenHorizonLongEnough ==
    (Returned /\ HorizonLongEnough) =>
        \A i \in 1..Len(tasks) : FullyScheduled(i)

\* C5 (amended): the same, for requests whose estimated hours and free slots are
\* whole numbers of hours.
FullSchedulingOfWholeHours ==
    (Returned /\ HorizonLongEnough /\ WholeHours) =>
        \A i \in 1..Len(tasks) : FullyScheduled(i)

\* C5 witness: a returned plan of two whole-hour tasks that took several days
FullSchedulingWitness ==
    /\ Returned /\ HorizonLongEnough /\ WholeHours
    /\ Len(tasks) = 2
    /\ Cardinality(DaysOf(allBlocks)) >= 3
    /\ \A i \in 1..Len(tasks) : FullyScheduled(i)

InitWholeHourTasks ==
    /\ Init
    /\ \A i \in 1..Len(rawTasks) : rawTasks[i].estimated_hours % 60 = 0

SpecWholeHourTasks == InitWholeHourTasks /\ [][Next]_vars

(***************************************************************************)
(* Claim C6: priority order within a day.                                  *)
(***************************************************************************)
\* some slot of the day still has a free gap of at least 60 minutes
SomeFreeGap ==
    \E k \in 1..Len(timeSlots) : timeSlots[k].end - slotPositions[k] >= 60

\* a task of strictly higher priority_score than the one being served still has
\* at least `least` remaining
HigherPriorityWaiting(least) ==
    \E i \in 1..Len(tasksWithRemaining) :
        /\ tasksWithRemaining[i].priority_score > task.priority_score
        /\ tasksWithRemaining[i].remaining_hours >= least

\* C6 (as claimed): no block is created for a task while a task of strictly
\* higher priority_score has remaining_hours > 0 and a slot has a gap of 60 minutes.
PriorityOrderWithinDay ==
    [][ScheduleBlock => ~(HigherPriorityWaiting(1) /\ SomeFreeGap)]_vars

\* C6 (amended): no block is created for a task while a task of strictly higher
\* priority_score has remaining_hours >= 1 hour and a slot has a gap of 60 minutes.
PriorityOrderAboveOneHour ==
    [][ScheduleBlock => ~(HigherPriorityWaiting(60) /\ SomeFreeGap)]_vars

\* C6 witness: a block is being created for the second task of the day's order
\* while the first one, of higher priority_score, has been served this day
PriorityOrderWitness ==
    /\ pc = "alloc"
    /\ ti = 2
    /\ ENABLED ScheduleBlock
    /\ tasksWithRemaining[sortedTasks[1]].priority_score > task.priority_score
    /\ \E k \in 1..Len(blocks) : blocks[k].task_id = tasksWithRemaining[sortedTasks[1]].id

(***************************************************************************)
(* Claim C7: Scenario B, one open day with a lunch break.                  *)
(***************************************************************************)
\* generateDailyPlan holds the slots of a Monday of the LunchBreak request
ScenarioBDay ==
    /\ availability = LunchBreak
    /\ pc \in {"alloc", "endday"}
    /\ getDayName(currentDate) = "monday"

Slot(s, e) == [start |-> timeToMinutes(s), end |-> timeToMinutes(e)]

\* C7 (as claimed): with the default cap of 6 hours the slots are 09:00-12:00 and
\* 13:00-17:00.
ScenarioBSlots ==
    (ScenarioBDay /\ maxHoursPerDay = 6 * 60) =>
        timeSlots = << Slot(T(9, 0), T(12, 0)), Slot(T(13, 0), T(17, 0)) >>

\* C7 (amended): with the default cap of 6 hours the slots are 09:00-12:00 and
\* 13:00-16:00, the cap cutting the second one to 3 hours; 13:00-17:00 is the
\* second slot under a cap of 8 hours.
ScenarioBSlotsCapped ==
    /\ (ScenarioBDay /\ maxHoursPerDay = 6 * 60) =>
           timeSlots = << Slot(T(9, 0), T(12, 0)), Slot(T(13, 0), T(16, 0)) >>
    /\ (ScenarioBDay /\ maxHoursPerDay = 8 * 60) =>
           timeSlots = << Slot(T(9, 0), T(12, 0)), Slot(T(13, 0), T(17, 0)) >>

\* C7 witness: the slots of such a Monday under the default cap
ScenarioBWitness ==
    /\ ScenarioBDay
    /\ maxHoursPerDay = 6 * 60
    /\ Len(timeSlots) = 2

(***************************************************************************)
(* Claims C8 and C10: Scenarios A and C, default availability, cap 6.      *)
(***************************************************************************)
DefaultRequest == availability = <<>> /\ maxHoursPerDay = 6 * 60

ScenarioA ==
    /\ DefaultRequest
    /\ Len(rawTasks) = 1
    /\ rawTasks[1].estimated_hours = 25 * 60

\* C8: a single 25-hour task, default availability, cap 6, any start weekday:
\* blocks on at least 5 distinct days, at most 6 hours a day, 25 hours in total.
ScenarioASplit ==
    (Returned /\ ScenarioA) =>
        /\ Cardinality(DaysOf(allBlocks)) >= 5
        /\ \A d \in DaysOf(allBlocks) : SumDuration(BlocksOfDay(allBlocks, d)) <= 6 * 60
        /\ SumDuration(allBlocks) = 25 * 60

\* C8 witness: the plan of Scenario A, returned
ScenarioAWitness ==
    /\ Returned /\ ScenarioA
    /\ Len(allBlocks) >= 5

ScenarioC ==
    /\ DefaultRequest
    /\ Len(rawTasks) = 2
    /\ \E i, j \in 1..2 :
           /\ rawTasks[i].estimated_hours = 40 * 60 /\ rawTasks[i].difficulty_score = 900
           /\ rawTasks[j].estimated_hours = 5 * 60  /\ rawTasks[j].difficulty_score = 200
           /\ rawTasks[i].deadline = now + Days(1) /\ rawTasks[j].deadline = now + Days(1)

FirstDayOf(id) == BlocksOfTask(BlocksOfDay(allBlocks, startDate), id)

\* C10: a 40-hour difficulty-9 task and a 5-hour difficulty-2 task, both due in
\* one day, scored by prioritize, cap 6: on the first day the 40-hour task gets
\* exactly 6 hours and the 5-hour task none.
ScenarioCFirstDay ==
    (Returned /\ ScenarioC) =>
        \A i \in 1..Len(rawTasks) :
            IF rawTasks[i].estimated_hours = 40 * 60
            THEN SumDuration(FirstDayOf(rawTasks[i].id)) = 6 * 60
            ELSE FirstDayOf(rawTasks[i].id) = <<>>

\* C10 witness: the plan of Scenario C, returned, the 5-hour task given first
ScenarioCWitness ==
    /\ Returned /\ ScenarioC
    /\ rawTasks[1].estimated_hours = 5 * 60
    /\ Len(allBlocks) >= 7


(***************************************************************************)
(* prioritize on its own: the scorer applied to task lists that hold equal *)
(* scores, fields outside their documented range, weights that are no      *)
(* whole hundredth, and a deadline that is no date.                        *)
(***************************************************************************)
ScorePool ==
    { RawTask("due1",     Days(1),     5 * 60,  500),
      RawTask("due3",     Days(3),     5 * 60,  500),
      RawTask("late",     0 - Days(1), 5 * 60,  500),
      RawTask("far",      Days(12),    5 * 60,  500),
      RawTask("tieA",     Days(2),     10 * 60, 300),
      RawTask("tieB",     Days(2),     5 * 60,  400),
      RawTask("hard15",   0 - Days(1), 60 * 60, 1500),
      RawTask("negHours", Days(1),     0 - 180, 500),
      RawTask("thirds",   20,          10,      500),
      RawTask("noDate",   NaN,         5 * 60,  500) }

ScoreLists ==
    UNION { { s \in [1..n -> ScorePool] : \A i, j \in 1..n : i # j => s[i] # s[j] }
            : n \in 0..MaxTasks }

\* the reference times prioritize is called at
ScoreNows == { 0, Days(2) }

InitScore ==
    /\ rawTasks \in ScoreLists
    /\ now \in ScoreNows
    /\ availability = <<>>
    /\ maxHoursPerDay = 6 * 60
    /\ max_hours_per_day = maxHoursPerDay
    /\ startDate = 0
    /\ startTime = 0
    /\ utcOffset = 0
    /\ pc = "score"
    /\ tasks = <<>>
    /\ avail = <<>>
    /\ tasksWithRemaining = <<>>
    /\ allBlocks = <<>>
    /\ dayOffset = 0
    /\ timeSlots = <<>>
    /\ sortedTasks = <<>>
    /\ slotPositions = <<>>
    /\ blocks = <<>>
    /\ ti = 1
    /\ si = 1
    /\ result = NoResult

SpecScore == InitScore /\ [][Prioritize]_vars

\* prioritize has returned
Scored == pc = "plan"

\* every deadline of the input parses as a date
DeadlinesParse == \A i \in 1..Len(rawTasks) : ~isNaN(rawTasks[i].deadline)

PositionOf(id) == CHOOSE i \in 1..Len(rawTasks) : rawTasks[i].id = id

\* C13: prioritize returns a permutation of its input tasks whose
\* priority_score never increases along the list, and tasks of equal
\* priority_score keep the order they had in the input.
PrioritizeSortsStably ==
    (Scored /\ DeadlinesParse) =>
        /\ Len(tasks) = Len(rawTasks)
        /\ \A i \in 1..Len(rawTasks) : \E j \in 1..Len(tasks) :
               /\ tasks[j].id = rawTasks[i].id
               /\ tasks[j].deadline = rawTasks[i].deadline
               /\ tasks[j].estimated_hours = rawTasks[i].estimated_hours
               /\ tasks[j].difficulty_score = rawTasks[i].difficulty_score
        /\ \A j \in 1..(Len(tasks) - 1) :
               tasks[j].priority_score >= tasks[j + 1].priority_score
        /\ \A j, k \in 1..Len(tasks) :
               (j < k /\ tasks[j].priority_score = tasks[k].priority_score)
                   => PositionOf(tasks[j].id) < PositionOf(tasks[k].id)

\* two different tasks of equal score, returned in their input order
PrioritizeSortsStablyWitness ==
    /\ Scored
    /\ Len(tasks) = 2
    /\ tasks[1].id = "tieB" /\ tasks[2].id = "tieA"
    /\ tasks[1].priority_score = tasks[2].priority_score
    /\ rawTasks[1].id = "tieB"


InRange(x, lo, hi) == lo <= x /\ x <= hi

\* C14: for every task, fields outside their documented range included
\* (difficulty_score above 10, negative estimated_hours), each returned
\* weight lies in [0, 100] and priority_score in [0, 300].
ScoreRanges ==
    (Scored /\ DeadlinesParse) =>
        \A j \in 1..Len(tasks) :
            /\ InRange(tasks[j].urgency_weight, 0, 100 * 100)
            /\ InRange(tasks[j].difficulty_weight, 0, 100 * 100)
            /\ InRange(tasks[j].hours_weight, 0, 100 * 100)
            /\ InRange(tasks[j].priority_score, 0, 300 * 100)

UrgencyMonotone ==
    (Scored /\ DeadlinesParse) =>
        /\ \A j, k \in 1..Len(tasks) :
               ( /\ tasks[j].estimated_hours = tasks[k].estimated_hours
                 /\ tasks[j].difficulty_score = tasks[k].difficulty_score
                 /\ tasks[j].deadline <= tasks[k].deadline )
                   => tasks[j].urgency_weight >= tasks[k].urgency_weight
        /\ \A j \in 1..Len(tasks) :
               tasks[j].deadline < now => tasks[j].urgency_weight = 100 * 100

\* an overdue task and one due later, equal in every other field, with
\* different urgency
UrgencyMonotoneWitness ==
    /\ Scored
    /\ Len(tasks) = 2
    /\ tasks[1].deadline < now /\ now < tasks[2].deadline
    /\ tasks[1].estimated_hours = tasks[2].estimated_hours
    /\ tasks[1].difficulty_score = tasks[2].difficulty_score
    /\ tasks[1].urgency_weight = 100 * 100
    /\ tasks[2].urgency_weight < tasks[1].urgency_weight

\* C19: a task whose deadline is no date makes prioritize fail; prioritize
\* never returns a scored list that holds such a task.
MalformedDeadlineFails ==
    ~(Scored /\ \E j \in 1..Len(tasks) : isNaN(tasks[j].deadline))


(***************************************************************************)
(* The first block of a weekly plan, and the length of blocks.             *)
(***************************************************************************)
EarliestDay == CHOOSE d \in DaysOf(allBlocks) : \A e \in DaysOf(allBlocks) : d <= e

FirstBlockOfEarliestDay == BlocksOfDay(allBlocks, EarliestDay)[1]

IndexOfTask(id) == (CHOOSE j \in 1..Len(tasks) : tasks[j].id = id)

\* the tasks were passed to generateWeeklyPlan in another order than by score
PassedOutOfOrder ==
    \E j \in 1..(Len(tasks) - 1) : tasks[j].priority_score < tasks[j + 1].priority_score

\* C11 as stated: the first block of the earliest scheduled day belongs to
\* the task with the highest priority_score of all tasks, whatever the order
\* the tasks were passed in.
FirstBlockToHighestPriority ==
    (Returned /\ allBlocks # <<>>) =>
        \A j \in 1..Len(tasks) :
            tasks[IndexOfTask(FirstBlockOfEarliestDay.task_id)].priority_score
                >= tasks[j].priority_score

\* C11: the first block of the earliest scheduled day belongs to a task whose
\* priority_score is the highest among the tasks with estimated_hours of at
\* least 1 hour, whatever the order the tasks were passed in.
FirstBlockToHighestSchedulable ==
    (Returned /\ allBlocks # <<>>) =>
        \A j \in 1..Len(tasks) :
            tasks[j].estimated_hours >= 60 =>
                tasks[IndexOfTask(FirstBlockOfEarliestDay.task_id)].priority_score
                    >= tasks[j].priority_score

\* two tasks of an hour or more passed lowest score first: the first block
\* is the second task's
FirstBlockWitness ==
    /\ Returned
    /\ Len(tasks) = 2
    /\ PassedOutOfOrder
    /\ tasks[1].estimated_hours >= 60
    /\ allBlocks # <<>>
    /\ FirstBlockOfEarliestDay.task_id = tasks[2].id
    /\ BlocksOfTask(allBlocks, tasks[1].id) # <<>>

\* C12: every block has a duration of at least 1 hour; an allocation below
\* 1 hour makes no block.
BlocksAtLeastOneHour ==
    /\ \A i \in 1..Len(blocks) : blocks[i].duration >= 10
    /\ \A i \in 1..Len(allBlocks) : allBlocks[i].duration >= 10

\* a task left with less than an hour got no block for it while other blocks
\* were made
BlocksAtLeastOneHourWitness ==
    /\ Returned
    /\ allBlocks # <<>>
    /\ \E i \in 1..Len(tasksWithRemaining) :
           /\ tasksWithRemaining[i].remaining_hours > 0
           /\ tasksWithRemaining[i].remaining_hours < 60
           /\ tasksWithRemaining[i].estimated_hours < 60
           /\ BlocksOfTask(allBlocks, tasksWithRemaining[i].id) = <<>>


(***************************************************************************)
(* The free time of a day the request gives no interval for.               *)
(***************************************************************************)
\* generateDailyPlan has resolved the free time of currentDate
SlotsResolved == pc \in {"alloc", "endday"}

\* the request holds no interval for the weekday of currentDate: availability
\* is absent or empty, or lacks that weekday
NoIntervalForWeekday ==
    \A i \in 1..Len(availability) : availability[i].day # getDayName(currentDate)

\* one range from 09:00 of min(8, cap) hours Monday to Friday, one from 10:00
\* of min(6, cap) hours on Saturday and Sunday
DefaultRange ==
    IF getDayName(currentDate) \in {"saturday", "sunday"}
    THEN << [start |-> 10 * 60, end |-> 10 * 60 + Min(6 * 60, maxHoursPerDay)] >>
    ELSE << [start |-> 9 * 60, end |-> 9 * 60 + Min(8 * 60, maxHoursPerDay)] >>

DayEnum ==
    {"monday", "tuesday", "wednesday", "thursday", "friday", "saturday", "sunday"}

\* studyPlannerInputSchema.parse(input) does not throw: the weekday of every
\* interval is one of the enum, numbers are numbers, booleans are booleans;
\* start_time and end_time are any strings, estimated_hours is any number
SchemaAccepts ==
    /\ \A i \in 1..Len(rawTasks) :
           /\ rawTasks[i].estimated_hours \in Int
           /\ rawTasks[i].difficulty_score \in Int
    /\ \A i \in 1..Len(availability) :
           /\ availability[i].day \in DayEnum
           /\ availability[i].available \in BOOLEAN
    /\ max_hours_per_day \in Int

\* "HH:mm" names a time of day
ValidTime(time) == time.hh \in 0..23 /\ time.mm \in 0..59

ExecutePool ==
    { RawTask("small5",   Days(1), 5 * 60,  200),
      RawTask("two",      Days(5), 2 * 60,  500),
      RawTask("negHours", Days(1), 0 - 180, 500) }

ExecuteLists ==
    UNION { { s \in [1..n -> ExecutePool] : \A i, j \in 1..n : i # j => s[i] # s[j] }
            : n \in 0..MaxTasks }

\* an interval whose day is no weekday name
BadDay == << Iv("funday", T(9, 0), T(17, 0), TRUE) >>

\* an interval of every weekday whose times are no times of day: "25:00"-"26:30"
BadTime == [i \in 1..7 |-> Iv(dayNames[i], T(25, 0), T(26, 30), TRUE)]

ExecuteAvailabilityCases == { <<>>, LunchBreak, BadDay, BadTime }

\* max_hours_per_day of a request: 0, 1.5 and 6
ExecuteMaxHoursCases == { 0, 90, 6 * 60 }

InitExecute ==
    /\ rawTasks \in ExecuteLists
    /\ now = 0
    /\ availability \in ExecuteAvailabilityCases
    /\ max_hours_per_day \in ExecuteMaxHoursCases
    /\ maxHoursPerDay = max_hours_per_day
    /\ startDate \in StartDates
    /\ startTime = 0
    /\ utcOffset = 0
    /\ pc = "execute"
    /\ tasks = <<>>
    /\ avail = <<>>
    /\ tasksWithRemaining = <<>>
    /\ allBlocks = <<>>
    /\ dayOffset = 0
    /\ timeSlots = <<>>
    /\ sortedTasks = <<>>
    /\ slotPositions = <<>>
    /\ blocks = <<>>
    /\ ti = 1
    /\ si = 1
    /\ result = NoResult

\* parse throws: the catch block returns success: false without data
Reject ==
    /\ pc = "execute"
    /\ ~SchemaAccepts
    /\ result' = [NoResult EXCEPT !.returned = TRUE]
    /\ pc' = "failed"
    /\ UNCHANGED << inputs, tasks, avail, tasksWithRemaining, allBlocks, dayOffset,
                    timeSlots, sortedTasks, slotPositions, blocks, ti, si >>

\* parse returns: generateWeeklyPlan is called with the request's tasks and
\* availability and with max_hours_per_day || 6
Accept ==
    /\ pc = "execute"
    /\ SchemaAccepts
    /\ tasks' = [i \in 1..Len(rawTasks) |-> ScoreTask(rawTasks[i], now)]
    /\ maxHoursPerDay' = IF max_hours_per_day = 0 THEN 6 * 60 ELSE max_hours_per_day
    /\ pc' = "plan"
    /\ UNCHANGED << rawTasks, now, availability, max_hours_per_day, startDate, startTime,
                    utcOffset, result,
                    avail, tasksWithRemaining, allBlocks, dayOffset, timeSlots,
                    sortedTasks, slotPositions, blocks, ti, si >>

\* studyBlocks.reduce((sum, block) => sum + block.duration, 0), in tenths of an hour
totalHours(studyBlocks) == SumDuration(studyBlocks) \div 6

\* mutant of averageHoursPerDay: the division without its test, 0 / 0 is NaN
averageHoursPerDayUnguarded(total, daysCovered) ==
    IF daysCovered = 0 THEN NaN
    ELSE (2 * total + daysCovered) \div (2 * daysCovered)

\* daysCovered > 0 ? totalHours / daysCovered : 0, then Math.round(x * 10) / 10
averageHoursPerDay(total, daysCovered) ==
    IF daysCovered > 0
    THEN (2 * total + daysCovered) \div (2 * daysCovered)
    ELSE 0

Summary(studyBlocks) ==
    LET daysCovered == Cardinality(DaysOf(studyBlocks))
    IN  [total_blocks          |-> Len(studyBlocks),
         total_hours           |-> totalHours(studyBlocks),
         days_covered          |-> daysCovered,
         average_hours_per_day |-> averageHoursPerDay(totalHours(studyBlocks), daysCovered)]

\* the weekly plan is made: the summary is computed and success: true returned
Respond ==
    /\ pc = "done"
    /\ result' = [returned |-> TRUE, success |-> TRUE, study_blocks |-> allBlocks,
                  summary |-> Summary(allBlocks)]
    /\ pc' = "responded"
    /\ UNCHANGED << inputs, tasks, avail, tasksWithRemaining, allBlocks, dayOffset,
                    timeSlots, sortedTasks, slotPositions, blocks, ti, si >>

NextExecute ==
    \/ Reject
    \/ Accept
    \/ StartWeeklyPlan
    \/ StartDailyPlan
    \/ TaskServed
    \/ SkipSlot
    \/ ScheduleBlock
    \/ EndDay
    \/ Respond

SpecExecute == InitExecute /\ [][NextExecute]_vars

\* C17: with no tasks, execute succeeds with study_blocks empty and a summary
\* of total_blocks 0, total_hours 0, days_covered 0 and average_hours_per_day
\* 0 (no NaN), for every availability list and every start date.
ScenarioDEmptyPlan ==
    (result.returned /\ rawTasks = <<>> /\ SchemaAccepts) =>
        /\ result.success
        /\ result.study_blocks = <<>>
        /\ result.summary.total_blocks = 0
        /\ result.summary.total_hours = 0
        /\ result.summary.days_covered = 0
        /\ result.summary.average_hours_per_day = 0

\* a request without tasks, with an availability list of its own and a start
\* in the middle of the week, answered
ScenarioDWitness ==
    /\ result.returned
    /\ result.success
    /\ rawTasks = <<>>
    /\ availability = LunchBreak
    /\ startDate = 3
    /\ result.summary.days_covered = 0

\* the request holds a negative estimated_hours, or a start_time or end_time
\* that is no time of day
InvalidRequest ==
    \/ \E i \in 1..Len(rawTasks) : rawTasks[i].estimated_hours < 0
    \/ \E i \in 1..Len(availability) :
           ~ValidTime(availability[i].start_time) \/ ~ValidTime(availability[i].end_time)

\* C18: a request with a negative estimated_hours, or with a start_time or
\* end_time that is no valid HH:MM time, is rejected as a whole: success is
\* false and no data is returned.
InvalidRequestRejected ==
    (result.returned /\ InvalidRequest) =>
        (~result.success /\ result.study_blocks = <<>>)


(***************************************************************************)
(* The day label of a block on hosts away from UTC: getDayName reads the   *)
(* local weekday (Date.getDay), the label is the UTC date (toISOString).   *)
(***************************************************************************)
ZonePool ==
    { RawTask("small5", Days(1), 5 * 60, 200),
      RawTask("two",    Days(5), 2 * 60, 500) }

ZoneLists ==
    UNION { { s \in [1..n -> ZonePool] : \A i, j \in 1..n : i # j => s[i] # s[j] }
            : n \in 0..MaxTasks }

\* local time of day of the start instant: midnight, 19:00, 23:00
StartTimes == { 0, 19 * 60, 23 * 60 }

\* hosts at UTC-5, UTC and UTC+9
UtcOffsets == { 0 - 5 * 60, 0, 9 * 60 }

InitHostZones ==
    /\ rawTasks \in ZoneLists
    /\ now = 0
    /\ availability \in { <<>>, LunchBreak }
    /\ maxHoursPerDay = 6 * 60
    /\ max_hours_per_day = maxHoursPerDay
    /\ startDate \in StartDates
    /\ startTime \in StartTimes
    /\ utcOffset \in UtcOffsets
    /\ pc = "score"
    /\ tasks = <<>>
    /\ avail = <<>>
    /\ tasksWithRemaining = <<>>
    /\ allBlocks = <<>>
    /\ dayOffset = 0
    /\ timeSlots = <<>>
    /\ sortedTasks = <<>>
    /\ slotPositions = <<>>
    /\ blocks = <<>>
    /\ ti = 1
    /\ si = 1
    /\ result = NoResult

SpecHostZones == InitHostZones /\ [][Next]_vars

\* C30: the weekday of the date in a block's day field is the weekday whose
\* availability (or default) gave the slot the block was placed in, for
\* every start instant and every UTC offset of the host.
DayLabelMatchesWeekday ==
    SlotsResolved =>
        \A i \in 1..Len(blocks) : getDayName(blocks[i].day) = getDayName(currentDate)


(***************************************************************************)
(* The walk of generateWeeklyPlan over the days of the horizon.            *)
(***************************************************************************)
\* no task has hours left
NothingRemains ==
    \A i \in 1..Len(tasksWithRemaining) : tasksWithRemaining[i].remaining_hours <= 0

\* C21: generateWeeklyPlan visits the days in ascending order from startDate,
\* each at most once and at most 7 of them, and visits no further day once
\* every task's remaining_hours is <= 0 at the end of a day; no block lies
\* outside startDate .. startDate + 6 and the blocks are returned in
\* non-decreasing day order.
HorizonWalk ==
    [][ /\ dayOffset' \in {dayOffset, dayOffset + 1}
        /\ dayOffset' < daysToPlan
        /\ dayOffset' = dayOffset + 1 => ~NothingRemains
        /\ \A i \in 1..Len(allBlocks') :
               /\ allBlocks'[i].day >= toISODate(startDate)
               /\ allBlocks'[i].day <= toISODate(startDate) + daysToPlan - 1
        /\ \A i \in 1..(Len(allBlocks') - 1) :
               allBlocks'[i].day <= allBlocks'[i + 1].day ]_vars

\* a plan that stopped before the seventh day, all tasks served, with blocks
\* on more than one day
HorizonWalkWitness ==
    /\ Returned
    /\ dayOffset > 0
    /\ dayOffset < daysToPlan - 1
    /\ tasksWithRemaining # <<>>
    /\ NothingRemains
    /\ Cardinality(DaysOf(allBlocks)) = dayOffset + 1


(***************************************************************************)
(* getAvailableTimeSlots on its own: a Monday given open and busy          *)
(* intervals that overlap, nest, cover one another and come in any order.  *)
(***************************************************************************)
\* longest availability list
MaxIntervals == 3

IntervalChoices ==
    { Iv("monday", T(9, 0),  T(17, 0), TRUE),
      Iv("monday", T(10, 0), T(12, 0), TRUE),
      Iv("monday", T(8, 0),  T(10, 0), FALSE),
      Iv("monday", T(10, 0), T(14, 0), FALSE),
      Iv("monday", T(11, 0), T(12, 0), FALSE),
      Iv("monday", T(13, 0), T(15, 0), FALSE),
      Iv("monday", T(16, 0), T(18, 0), FALSE),
      Iv("monday", T(8, 0),  T(18, 0), FALSE) }

IntervalLists ==
    UNION { { s \in [1..n -> IntervalChoices] : \A i, j \in 1..n : i # j => s[i] # s[j] }
            : n \in 0..MaxIntervals }

InitSlots ==
    /\ rawTasks = <<>>
    /\ now = 0
    /\ availability \in IntervalLists
    /\ maxHoursPerDay \in MaxHoursCases
    /\ max_hours_per_day = maxHoursPerDay
    /\ startDate \in { 1, 2, 6 }
    /\ startTime = 0
    /\ utcOffset = 0
    /\ pc = "plan"
    /\ tasks = <<>>
    /\ avail = <<>>
    /\ tasksWithRemaining = <<>>
    /\ allBlocks = <<>>
    /\ dayOffset = 0
    /\ timeSlots = <<>>
    /\ sortedTasks = <<>>
    /\ slotPositions = <<>>
    /\ blocks = <<>>
    /\ ti = 1
    /\ si = 1
    /\ result = NoResult

NextSlots ==
    \/ StartWeeklyPlan
    \/ StartDailyPlan
    \/ EndDay

SpecSlots == InitSlots /\ [][NextSlots]_vars

\* the open intervals of the weekday of date
OpenPeriodsOf(date) ==
    { Period(availability[k]) :
        k \in { n \in 1..Len(availability) :
                  /\ availability[n].available
                  /\ availability[n].day = getDayName(date) } }

\* C22: no slot returned by getAvailableTimeSlots intersects a busy interval
\* of that weekday, whatever the number and order of the busy intervals,
\* overlapping, nested or starting before the open interval; when every open
\* interval is covered by one busy interval there is no slot.
SlotsExcludeBusy ==
    SlotsResolved =>
        /\ \A s \in 1..Len(timeSlots) : \A busy \in BusyPeriodsOf(currentDate) :
               timeSlots[s].end <= busy.start \/ busy.end <= timeSlots[s].start
        /\ ( /\ OpenPeriodsOf(currentDate) # {}
             /\ \A open \in OpenPeriodsOf(currentDate) :
                    \E busy \in BusyPeriodsOf(currentDate) :
                        busy.start <= open.start /\ open.end <= busy.end )
               => timeSlots = <<>>

\* 09:00-17:00 open with 11:00-12:00 nested in 10:00-14:00, the wider busy
\* interval given last: the slots are 09:00-10:00 and 14:00-17:00
SlotsExcludeBusyWitness ==
    /\ SlotsResolved
    /\ availability = << Iv("monday", T(11, 0), T(12, 0), FALSE),
                         Iv("monday", T(9, 0),  T(17, 0), TRUE),
                         Iv("monday", T(10, 0), T(14, 0), FALSE) >>
    /\ maxHoursPerDay = 8 * 60
    /\ timeSlots = << Slot(T(9, 0), T(10, 0)), Slot(T(14, 0), T(17, 0)) >>

\* C23: every slot returned by getAvailableTimeSlots is at least 60 minutes
\* long, for every availability list, none for the weekday included, and
\* every daily cap, caps below 1 hour included.
SlotsAtLeastOneHour ==
    SlotsResolved =>
        \A s \in 1..Len(timeSlots) : timeSlots[s].start + 60 <= timeSlots[s].end


(***************************************************************************)
(* The planner given priority_score values of the caller's own, as the     *)
(* getStudyPlan tool and StudyPlannerAgent.execute pass them on.           *)
(***************************************************************************)
\* priority_score values a caller supplies: 50.00 and 200.00
SuppliedScores == { 50 * 100, 200 * 100 }

\* the caller passes the tasks with priority_score values of its own
PassSuppliedScores ==
    /\ pc = "score"
    /\ \E f \in [1..Len(rawTasks) -> SuppliedScores] :
           tasks' = [i \in 1..Len(rawTasks) |->
                        [ScoreTask(rawTasks[i], now) EXCEPT !.priority_score = f[i]]]
    /\ pc' = "plan"
    /\ UNCHANGED << inputs, result, avail, tasksWithRemaining, allBlocks, dayOffset,
                    timeSlots, sortedTasks, slotPositions, blocks, ti, si >>

InitSupplied ==
    /\ rawTasks \in TaskLists
    /\ now = 0
    /\ availability \in { <<>>, LunchBreak, ShortDays }
    /\ maxHoursPerDay \in { 6 * 60, 90 }
    /\ max_hours_per_day = maxHoursPerDay
    /\ startDate \in { 1, 6 }
    /\ startTime = 0
    /\ utcOffset = 0
    /\ pc = "score"
    /\ tasks = <<>>
    /\ avail = <<>>
    /\ tasksWithRemaining = <<>>
    /\ allBlocks = <<>>
    /\ dayOffset = 0
    /\ timeSlots = <<>>
    /\ sortedTasks = <<>>
    /\ slotPositions = <<>>
    /\ blocks = <<>>
    /\ ti = 1
    /\ si = 1
    /\ result = NoResult

NextSupplied ==
    \/ PassSuppliedScores
    \/ StartWeeklyPlan
    \/ StartDailyPlan
    \/ TaskServed
    \/ SkipSlot
    \/ ScheduleBlock
    \/ EndDay

SpecSupplied == InitSupplied /\ [][NextSupplied]_vars

\* what the score formula gives the i-th task at the reference time
FormulaScore(i) == ScoreTask(tasks[i], now).priority_score

\* C24 as stated: the order in which the tasks are served is the order of
\* the score formula on deadline, estimated_hours and difficulty_score, not
\* of the priority_score the caller supplied.
ServedInFormulaOrder ==
    pc = "alloc" =>
        \A k \in 1..(Len(sortedTasks) - 1) :
            FormulaScore(sortedTasks[k]) >= FormulaScore(sortedTasks[k + 1])


\* C25 as stated: execute uses the request's max_hours_per_day as the daily
\* cap whenever it is supplied, the value 0 included, so that a request with
\* max_hours_per_day = 0 gets a plan without any block.
SuppliedCapIsUsed ==
    /\ pc # "execute" => maxHoursPerDay = max_hours_per_day
    /\ (result.returned /\ result.success /\ max_hours_per_day = 0) =>
           result.study_blocks = <<>>


\* C26: no step of prioritize changes the task list it was given, and no
\* step of generateWeeklyPlan changes the task objects the caller passed;
\* the hours still to schedule are kept on the copies in tasksWithRemaining.
InputsNotMutated ==
    [][/\ rawTasks' = rawTasks
       /\ pc # "score" => tasks' = tasks]_vars

\* a plan was returned whose copies have hours taken off while the caller's
\* tasks still carry their estimated_hours
InputsNotMutatedWitness ==
    /\ Returned
    /\ allBlocks # <<>>
    /\ \E i \in 1..Len(tasks) :
           /\ tasksWithRemaining[i].remaining_hours < tasks[i].estimated_hours
           /\ tasks[i].estimated_hours = rawTasks[PositionOf(tasks[i].id)].estimated_hours


\* priority_score of the task a block belongs to, as passed to the planner
ScoreOfBlock(b) == tasks[IndexOfTask(b.task_id)].priority_score

\* C27: in the block list of generateWeeklyPlan every block of a task with a
\* strictly higher priority_score comes before every block of a task with a
\* lower one, and of two tasks with equal priority_score the one passed
\* first has all its blocks first.
BlocksFollowPriority ==
    \A i, j \in 1..Len(allBlocks) :
        \/ ScoreOfBlock(allBlocks[i]) > ScoreOfBlock(allBlocks[j])
        \/ /\ ScoreOfBlock(allBlocks[i]) = ScoreOfBlock(allBlocks[j])
           /\ IndexOfTask(allBlocks[i].task_id) < IndexOfTask(allBlocks[j].task_id)
        => i < j

\* two tasks got blocks, on several days, the second passed having the
\* higher priority_score
BlocksFollowPriorityWitness ==
    /\ Returned
    /\ Len(tasks) = 2
    /\ tasks[1].priority_score < tasks[2].priority_score
    /\ BlocksOfTask(allBlocks, tasks[1].id) # <<>>
    /\ BlocksOfTask(allBlocks, tasks[2].id) # <<>>
    /\ Cardinality(DaysOf(allBlocks)) > 1

\* two tasks of equal priority_score both got blocks
EqualScoresWitness ==
    /\ Returned
    /\ Len(tasks) = 2
    /\ tasks[1].priority_score = tasks[2].priority_score
    /\ BlocksOfTask(allBlocks, tasks[1].id) # <<>>
    /\ BlocksOfTask(allBlocks, tasks[2].id) # <<>>


\* by how many minutes a step moves the cursor of the slot being filled
CursorAdvance ==
    IF pc = "alloc" THEN slotPositions'[si] - slotPositions[si] ELSE 0

\* C28: generateWeeklyPlan starts every task at remaining_hours =
\* estimated_hours; afterwards each step takes off the task being served
\* exactly the time by which it moves the slot cursor and leaves the other
\* tasks and cursors alone, and remaining_hours stays within
\* 0..estimated_hours for a task with estimated_hours >= 0.
RemainingHoursConserved ==
    [][/\ pc = "plan" =>
              \A i \in 1..Len(tasks) :
                  tasksWithRemaining'[i].remaining_hours = tasks[i].estimated_hours
       /\ pc \in {"day", "alloc", "endday"} =>
              \A i \in 1..Len(tasksWithRemaining) :
                  LET before == tasksWithRemaining[i].remaining_hours
                      after  == tasksWithRemaining'[i].remaining_hours
                  IN  /\ after <= before
                      /\ tasksWithRemaining[i].estimated_hours >= 0 =>
                             (0 <= after /\ after <= tasksWithRemaining[i].estimated_hours)
                      /\ before - after =
                             IF pc = "alloc" /\ i = sortedTasks[ti] THEN CursorAdvance ELSE 0
       /\ pc = "alloc" =>
              \A s \in 1..Len(slotPositions) :
                  s # si => slotPositions'[s] = slotPositions[s]]_vars

\* a day ends with two blocks made and a task partly scheduled
RemainingHoursConservedWitness ==
    /\ pc = "endday"
    /\ Len(blocks) >= 2
    /\ \E i \in 1..Len(tasksWithRemaining) :
           /\ tasksWithRemaining[i].remaining_hours > 0
           /\ tasksWithRemaining[i].remaining_hours < tasksWithRemaining[i].estimated_hours


\* what is left of the s-th slot of the day behind its cursor, in minutes
UnallocatedGap(s) == timeSlots[s].end - slotPositions[s]

\* C29: when the allocation of a day ends with a task that still has an
\* hour or more to schedule, no slot of that day has 60 minutes or more left
\* behind its cursor.
NoIdleCapacity ==
    (/\ pc = "endday"
     /\ \E i \in 1..Len(tasksWithRemaining) : tasksWithRemaining[i].remaining_hours >= 60)
    => \A s \in 1..Len(timeSlots) : UnallocatedGap(s) < 60

\* a day with several slots ends all filled while a task is carried over
NoIdleCapacityWitness ==
    /\ pc = "endday"
    /\ Len(timeSlots) >= 2
    /\ Len(blocks) >= 2
    /\ \E i \in 1..Len(tasksWithRemaining) : tasksWithRemaining[i].remaining_hours >= 60

=============================================================================
